---------------------------- MODULE Spec2Model ----------------------------
(***************************************************************************)
(* myprofiler: a sampling profiler for MySQL.  Each tick the process list  *)
(* is fetched, every statement is normalized to a query shape, the shapes  *)
(* are handed to a summarizer (Summarizer: all samples, RecentSummarizer:  *)
(* the last `limit` samples) and every `delay` ticks the summary is shown. *)
(*                                                                         *)
(* Strings are sequences of one-character strings, ordered byte-wise as    *)
(* Rust's String::cmp orders them.                                         *)
(***************************************************************************)
EXTENDS Integers, Sequences, FiniteSets, TLC

(***************************************************************************)
(* Bounds of the model.                                                    *)
(***************************************************************************)
MaxLimit == 2      \* --last ranges over 0..MaxLimit
MaxQueries == 2    \* queries handed to one update call
MaxUpdates == 3    \* update calls in one run
MaxTop == 2        \* --top ranges over 0..MaxTop
MaxDelay == 2      \* --delay ranges over 0..MaxDelay
MaxRows == 2       \* rows of one process list
MaxTicks == 3      \* iterations of the sampling loop in one run

(***************************************************************************)
(* Strings.                                                                *)
(***************************************************************************)
Chars(s) == [i \in 1..Len(s) |-> SubSeq(s, i, i)]

\* the printable ASCII characters 32..95 and 97..126, in byte order
PrintableLow ==
  Chars(" !\"#$%&'()*+,-./0123456789:;<=>?@ABCDEFGHIJKLMNOPQRSTUVWXYZ[\\]^_")

PrintableHigh == Chars("abcdefghijklmnopqrstuvwxyz{|}~")

Byte(c) ==
  IF \E i \in 1..Len(PrintableLow) : PrintableLow[i] = c
  THEN 31 + (CHOOSE i \in 1..Len(PrintableLow) : PrintableLow[i] = c)
  ELSE 96 + (CHOOSE i \in 1..Len(PrintableHigh) : PrintableHigh[i] = c)

\* a.cmp(b) == Less for two strings
StrLess(a, b) ==
  \E i \in 1..Len(b) :
     /\ i - 1 <= Len(a)
     /\ \A j \in 1..(i - 1) : a[j] = b[j]
     /\ \/ i = Len(a) + 1
        \/ i <= Len(a) /\ Byte(a[i]) < Byte(b[i])

(***************************************************************************)
(* NORMALIZE_PATTERNS: the eight regular expressions, each given by the    *)
(* end of its leftmost-first match starting at text[i] (0: no match), and  *)
(* its substitution.  Regex::replace_all replaces the non-overlapping      *)
(* matches from left to right; assertions look at the original text.       *)
(***************************************************************************)
IsDigit(c) == c \in {"0", "1", "2", "3", "4", "5", "6", "7", "8", "9"}

IsHex(c) ==
  IsDigit(c) \/ c \in {"A", "B", "C", "D", "E", "F", "a", "b", "c", "d", "e", "f"}

\* \w on ASCII text
IsWord(c) ==
  \/ c = "_"
  \/ Byte(c) \in 48..57
  \/ Byte(c) \in 65..90
  \/ Byte(c) \in 97..122

\* \s on ASCII text
IsSpace(c) == c \in {" ", "\t", "\n", "\r", "\f"}

WordAt(text, i) == i \in 1..Len(text) /\ IsWord(text[i])

\* \b between text[i - 1] and text[i]
Boundary(text, i) == WordAt(text, i - 1) # WordAt(text, i)

\* the character classes the patterns repeat
InClass(class, c) ==
  CASE class = " " -> c = " "
    [] class = "\\d" -> IsDigit(c)
    [] class = "[0-9A-Fa-f]" -> IsHex(c)
    [] class = "\\s" -> IsSpace(c)

\* last index of the longest run of characters of the class from text[i]
RunEnd(class, text, i) ==
  CHOOSE j \in (i - 1)..Len(text) :
     /\ \A k \in i..j : InClass(class, text[k])
     /\ j = Len(text) \/ ~InClass(class, text[j + 1])

\* r" +"
MatchSpaces(text, i) ==
  IF text[i] = " " THEN RunEnd(" ", text, i) ELSE 0

\* the decimal rule without its closing \b
MatchDigit_open(text, i) ==
  LET d == IF text[i] \in {"+", "-"} THEN i + 1 ELSE i
      e == RunEnd("\\d", text, d)
  IN IF e >= d /\ Boundary(text, d) THEN e ELSE 0

\* r#"[+-]{0,1}\b\d+\b"#  (both \b hold only around the whole digit run)
MatchDigit(text, i) ==
  LET d == IF text[i] \in {"+", "-"} THEN i + 1 ELSE i
      e == RunEnd("\\d", text, d)
  IN IF e >= d /\ Boundary(text, d) /\ Boundary(text, e + 1) THEN e ELSE 0

\* r"\b0x[0-9A-Fa-f]+\b"
MatchHex(text, i) ==
  LET e == RunEnd("[0-9A-Fa-f]", text, i + 2)
  IN IF /\ text[i] = "0"
        /\ Boundary(text, i)
        /\ i + 1 <= Len(text)
        /\ text[i + 1] = "x"
        /\ e >= i + 2
        /\ Boundary(text, e + 1)
     THEN e ELSE 0

\* r#"(\\')"# and r#"(\\")"#
MatchEscaped(quote, text, i) ==
  IF text[i] = "\\" /\ i + 1 <= Len(text) /\ text[i + 1] = quote
  THEN i + 1 ELSE 0

\* r"'[^']+'" and r#""[^"]+""#
MatchString(quote, text, i) ==
  LET closing == {j \in (i + 1)..Len(text) : text[j] = quote}
      j == CHOOSE k \in closing : \A m \in closing : k <= m
  IN IF text[i] = quote /\ closing # {} /\ j >= i + 2 THEN j ELSE 0

\* one repetition of ([NS]\s*,\s*) from text[i]
GroupEnd(text, i) ==
  LET a == RunEnd("\\s", text, i + 1)
  IN IF /\ i <= Len(text)
        /\ text[i] \in {"N", "S"}
        /\ a + 1 <= Len(text)
        /\ text[a + 1] = ","
     THEN RunEnd("\\s", text, a + 2) ELSE 0

LongRun == 4

\* the collapse asking for more than LongRun repetitions
RECURSIVE MatchLongFrom_gt(_, _, _, _)
MatchLongFrom_gt(text, i, n, last) ==
  LET e == GroupEnd(text, i)
  IN IF e > 0 THEN MatchLongFrom_gt(text, e + 1, n + 1, e)
     ELSE IF n > LongRun THEN last ELSE 0

\* r"(([NS]\s*,\s*){4,})": n repetitions matched so far, ending at last
RECURSIVE MatchLongFrom(_, _, _, _)
MatchLongFrom(text, i, n, last) ==
  LET e == GroupEnd(text, i)
  IN IF e > 0 THEN MatchLongFrom(text, e + 1, n + 1, e)
     ELSE IF n >= LongRun THEN last ELSE 0

MatchLong(text, i) == MatchLongFrom(text, i, 0, 0)

\* the cascade with the quoted literals matched before the escaped quotes
\* are removed
NORMALIZE_PATTERNS_literals_first ==
  << [re |-> "spaces", subs |-> Chars(" ")],
     [re |-> "digit", subs |-> Chars("N")],
     [re |-> "hex", subs |-> Chars("0xN")],
     [re |-> "string1", subs |-> Chars("S")],
     [re |-> "string2", subs |-> Chars("S")],
     [re |-> "single quote", subs |-> Chars("")],
     [re |-> "double quote", subs |-> Chars("")],
     [re |-> "long", subs |-> Chars("...")] >>

NORMALIZE_PATTERNS ==
  << [re |-> "spaces", subs |-> Chars(" ")],
     [re |-> "digit", subs |-> Chars("N")],
     [re |-> "hex", subs |-> Chars("0xN")],
     [re |-> "single quote", subs |-> Chars("")],
     [re |-> "double quote", subs |-> Chars("")],
     [re |-> "string1", subs |-> Chars("S")],
     [re |-> "string2", subs |-> Chars("S")],
     [re |-> "long", subs |-> Chars("...")] >>

MatchAt(re, text, i) ==
  CASE re = "spaces" -> MatchSpaces(text, i)
    [] re = "digit" -> MatchDigit(text, i)
    [] re = "hex" -> MatchHex(text, i)
    [] re = "single quote" -> MatchEscaped("'", text, i)
    [] re = "double quote" -> MatchEscaped("\"", text, i)
    [] re = "string1" -> MatchString("'", text, i)
    [] re = "string2" -> MatchString("\"", text, i)
    [] re = "long" -> MatchLong(text, i)

RECURSIVE ReplaceFrom(_, _, _)
ReplaceFrom(pat, text, i) ==
  IF i > Len(text) THEN <<>>
  ELSE LET e == MatchAt(pat.re, text, i)
       IN IF e > 0 THEN pat.subs \o ReplaceFrom(pat, text, e + 1)
          ELSE <<text[i]>> \o ReplaceFrom(pat, text, i + 1)

NormalizePattern_normalize(self, text) == ReplaceFrom(self, text, 1)

RECURSIVE NormalizeLoop(_, _)
NormalizeLoop(t, pats) ==
  IF pats = <<>> THEN t
  ELSE NormalizeLoop(NormalizePattern_normalize(Head(pats), t), Tail(pats))

normalize_query(text) == NormalizeLoop(text, NORMALIZE_PATTERNS)

QUERY_SHOW_PROCESS == Chars("SHOW FULL PROCESSLIST")

\* the Info column of the rows a fetch may return
RawTexts == {Chars(""), QUERY_SHOW_PROCESS, Chars("\\'"), Chars("1")}

\* the shapes the summarizers are handed: those of the statements \', 1
\* and 'a'
Shapes == {Chars(""), Chars("N"), Chars("S")}

SeqsUpTo(S, n) == UNION {[1..k -> S] : k \in 0..n}

(***************************************************************************)
(* show_summary: collect the table in the map's iteration order `iter`,    *)
(* sort stably by count descending, print until cnt >= n_query.            *)
(***************************************************************************)
IterOrders(summ) ==
  {p \in [1..Cardinality(DOMAIN summ) -> DOMAIN summ] :
      \A i, j \in DOMAIN p : p[i] = p[j] => i = j}

\* position of e in a sequence already sorted by b.1.cmp(a.1): after every
\* element that does not compare Greater
RECURSIVE InsertByCount(_, _)
InsertByCount(e, s) ==
  IF s = <<>> THEN <<e>>
  ELSE IF Head(s).v >= e.v THEN <<Head(s)>> \o InsertByCount(e, Tail(s))
       ELSE <<e>> \o s

RECURSIVE SortByCount(_, _)
SortByCount(pp, sorted) ==
  IF pp = <<>> THEN sorted
  ELSE SortByCount(Tail(pp), InsertByCount(Head(pp), sorted))

RECURSIVE PrintLoop(_, _, _, _)
PrintLoop(pp, cnt, n_query, printed) ==
  IF pp = <<>> THEN printed
  ELSE IF cnt + 1 >= n_query THEN Append(printed, Head(pp))
       ELSE PrintLoop(Tail(pp), cnt + 1, n_query, Append(printed, Head(pp)))

\* show_summary without the sort
show_summary_unsorted(summ, n_query, iter) ==
  LET pp == [i \in 1..Len(iter) |-> [k |-> iter[i], v |-> summ[iter[i]]]]
  IN PrintLoop(pp, 0, n_query, <<>>)

show_summary(summ, n_query, iter) ==
  LET pp == [i \in 1..Len(iter) |-> [k |-> iter[i], v |-> summ[iter[i]]]]
  IN PrintLoop(SortByCount(pp, <<>>), 0, n_query, <<>>)

Occurs(q, queries) == \E i \in DOMAIN queries : queries[i] = q

(***************************************************************************)
(* Summarizer                                                              *)
(***************************************************************************)
Summarizer_new(limit) == [counts |-> <<>>]

RECURSIVE CountLoop(_, _)
CountLoop(counts, queries) ==
  IF queries = <<>> THEN counts
  ELSE LET query == Head(queries)
           c0 == IF query \in DOMAIN counts THEN counts
                 ELSE counts @@ (query :> 0)
       IN CountLoop([c0 EXCEPT ![query] = @ + 1], Tail(queries))

\* update counting a shape once per call, however often it occurs
Summarizer_update_once(self, queries) ==
  [counts |-> [q \in DOMAIN self.counts \cup {queries[i] : i \in DOMAIN queries} |->
                 IF q \in DOMAIN self.counts
                 THEN self.counts[q] + (IF Occurs(q, queries) THEN 1 ELSE 0)
                 ELSE 1]]

Summarizer_update(self, queries) == [counts |-> CountLoop(self.counts, queries)]

(***************************************************************************)
(* RecentSummarizer                                                        *)
(***************************************************************************)
RecentSummarizer_new(limit) == [counts |-> <<>>, limit |-> limit]

RECURSIVE InsertSorted(_, _)
InsertSorted(x, s) ==
  IF s = <<>> THEN <<x>>
  ELSE IF StrLess(x, Head(s)) THEN <<x>> \o s
       ELSE <<Head(s)>> \o InsertSorted(x, Tail(s))

RECURSIVE SortQueries(_, _)
SortQueries(qs, sorted) ==
  IF qs = <<>> THEN sorted
  ELSE SortQueries(Tail(qs), InsertSorted(Head(qs), sorted))

\* the for loop of update; ok = FALSE when qc.last_mut() is None
\* the loop with l.n -= 1
RECURSIVE CoalesceLoop_dec(_, _, _)
CoalesceLoop_dec(qs, qc, last_query) ==
  IF qs = <<>> THEN [qc |-> qc, ok |-> TRUE]
  ELSE LET query == Head(qs)
           qc1 == IF last_query # query
                  THEN Append(qc, [q |-> query, n |-> 0])
                  ELSE qc
       IN IF qc1 = <<>> THEN [qc |-> qc1, ok |-> FALSE]
          ELSE CoalesceLoop_dec(Tail(qs),
                                [qc1 EXCEPT ![Len(qc1)].n = @ - 1], query)

\* the loop counting a shape once, its repetitions not added
RECURSIVE CoalesceLoop_first(_, _, _)
CoalesceLoop_first(qs, qc, last_query) ==
  IF qs = <<>> THEN [qc |-> qc, ok |-> TRUE]
  ELSE LET query == Head(qs)
           qc1 == IF last_query # query
                  THEN Append(qc, [q |-> query, n |-> 1])
                  ELSE qc
       IN IF qc1 = <<>> THEN [qc |-> qc1, ok |-> FALSE]
          ELSE CoalesceLoop_first(Tail(qs), qc1, query)

RECURSIVE CoalesceLoop(_, _, _)
CoalesceLoop(qs, qc, last_query) ==
  IF qs = <<>> THEN [qc |-> qc, ok |-> TRUE]
  ELSE LET query == Head(qs)
           qc1 == IF last_query # query
                  THEN Append(qc, [q |-> query, n |-> 0])
                  ELSE qc
       IN IF qc1 = <<>> THEN [qc |-> qc1, ok |-> FALSE]
          ELSE CoalesceLoop(Tail(qs), [qc1 EXCEPT ![Len(qc1)].n = @ + 1], query)

\* update evicting only when the window holds more than limit entries
RecentSummarizer_update_gt(self, queries) ==
  LET evict == Len(self.counts) > self.limit
      qs == SortQueries(queries, <<>>)
      res == CoalesceLoop(qs, <<>>, Chars(""))
  IN IF evict /\ self.counts = <<>>
     THEN [self |-> self, panic |-> "remove"]
     ELSE LET counts1 == IF evict THEN Tail(self.counts) ELSE self.counts
          IN IF res.ok
             THEN [self |-> [self EXCEPT !.counts = Append(counts1, res.qc)],
                   panic |-> "none"]
             ELSE [self |-> [self EXCEPT !.counts = counts1],
                   panic |-> "expect"]

\* update evicting the newest entry instead of the oldest
RecentSummarizer_update_pop(self, queries) ==
  LET evict == Len(self.counts) >= self.limit
      qs == SortQueries(queries, <<>>)
      res == CoalesceLoop(qs, <<>>, Chars(""))
  IN IF evict /\ self.counts = <<>>
     THEN [self |-> self, panic |-> "remove"]
     ELSE LET counts1 == IF evict
                         THEN SubSeq(self.counts, 1, Len(self.counts) - 1)
                         ELSE self.counts
          IN IF res.ok
             THEN [self |-> [self EXCEPT !.counts = Append(counts1, res.qc)],
                   panic |-> "none"]
             ELSE [self |-> [self EXCEPT !.counts = counts1],
                   panic |-> "expect"]

\* self after the call and how the call ended
RecentSummarizer_update(self, queries) ==
  LET evict == Len(self.counts) >= self.limit
      qs == SortQueries(queries, <<>>)
      res == CoalesceLoop(qs, <<>>, Chars(""))
  IN IF evict /\ self.counts = <<>>
     THEN [self |-> self, panic |-> "remove"]
     ELSE LET counts1 == IF evict THEN Tail(self.counts) ELSE self.counts
          IN IF res.ok
             THEN [self |-> [self EXCEPT !.counts = Append(counts1, res.qc)],
                   panic |-> "none"]
             ELSE [self |-> [self EXCEPT !.counts = counts1],
                   panic |-> "expect"]

RECURSIVE SumEntry(_, _)
SumEntry(summ, qcs) ==
  IF qcs = <<>> THEN summ
  ELSE LET qc == Head(qcs)
           s0 == IF qc.q \in DOMAIN summ THEN summ ELSE summ @@ (qc.q :> 0)
       IN SumEntry([s0 EXCEPT ![qc.q] = @ + qc.n], Tail(qcs))

RECURSIVE SumWindow(_, _)
SumWindow(summ, counts) ==
  IF counts = <<>> THEN summ
  ELSE SumWindow(SumEntry(summ, Head(counts)), Tail(counts))

\* the table RecentSummarizer::show hands to show_summary
RecentSummarizer_summ(self) == SumWindow(<<>>, self.counts)

(***************************************************************************)
(* get_process_list: the rows that pass the filter, in order               *)
(***************************************************************************)
\* the filter without the test against the fetch command
KeepRow_nonempty(info) == info # Chars("")

KeepRow(info) == info # Chars("") /\ info # QUERY_SHOW_PROCESS

get_process_list(rows) == SelectSeq(rows, KeepRow)

(***************************************************************************)
(* State                                                                   *)
(***************************************************************************)
Occurrences(q, queries) == Cardinality({i \in DOMAIN queries : queries[i] = q})

\* update calls the history keeps: enough to hold any window and the call
\* it has just evicted
HistLen == MaxLimit + 1

Latest(h, k) == SubSeq(h, Len(h) - k + 1, Len(h))

Min(a, b) == IF a <= b THEN a ELSE b

\* no case of test_normalize: the program is running exec_profile
NoCase == [kind |-> "none"]

VARIABLES
  last,         \* --last
  options,      \* MyprofilerOption: delay and top
  summarizer,   \* a Summarizer
  recent,       \* a RecentSummarizer
  panicked,     \* "none", or the panic that ended the run
  procs,        \* exec_profile: the Info of the fetched rows
  cnt,          \* exec_profile: ticks since the latest report
  pc,           \* exec_profile: the next step of the loop body
  out,          \* lines Summarizer::show printed in the latest step or tick
  rout,         \* the same of RecentSummarizer::show
  n_query,      \* the argument of that show
  calls,        \* history: the number of update calls so far
  fed,          \* history: occurrences of each shape in all update calls
  hist,         \* history: the latest HistLen update calls, each as a bag
  tick,         \* history: iterations of the loop started so far
  reported,     \* history: show was called in the current iteration
  fetch_failed, \* history: a fetch of the process list has failed
  rows,         \* history: the Info of every row fetched, until normalized
  given         \* test_normalize: the case normalize_query is given

vars == <<last, options, summarizer, recent, panicked, procs, cnt, pc,
          out, rout, n_query, calls, fed, hist, tick, reported, fetch_failed,
          rows, given>>

history == <<calls, fed, hist>>

loopVars == <<last, options, procs, cnt, pc, tick, reported, fetch_failed,
              rows, given>>

\* the history after update(queries)
Recorded(queries) ==
  /\ calls' = calls + 1
  /\ fed' = [q \in Shapes |-> fed[q] + Occurrences(q, queries)]
  /\ hist' = LET h == Append(hist, [q \in Shapes |-> Occurrences(q, queries)])
             IN Latest(h, Min(Len(h), HistLen))

(***************************************************************************)
(* Both summarizers driven by the same calls of the Summarize trait, the   *)
(* Summarizer first; a panic ends the run.                                 *)
(***************************************************************************)
InitSumm ==
  /\ last \in 0..MaxLimit
  /\ options = [delay |-> 1, top |-> 0]
  /\ summarizer = Summarizer_new(last)
  /\ recent = RecentSummarizer_new(last)
  /\ panicked = "none"
  /\ procs = <<>>
  /\ cnt = 0
  /\ pc = "fetch"
  /\ out = <<>>
  /\ rout = <<>>
  /\ n_query = 0
  /\ calls = 0
  /\ fed = [q \in Shapes |-> 0]
  /\ hist = <<>>
  /\ tick = 0
  /\ reported = FALSE
  /\ fetch_failed = FALSE
  /\ rows = <<>>
  /\ given = NoCase

Update ==
  /\ panicked = "none"
  /\ calls < MaxUpdates
  /\ \E queries \in SeqsUpTo(Shapes, MaxQueries) :
       LET res == RecentSummarizer_update(recent, queries)
       IN /\ summarizer' = Summarizer_update(summarizer, queries)
          /\ recent' = res.self
          /\ panicked' = res.panic
          /\ Recorded(queries)
  /\ out' = <<>> /\ rout' = <<>> /\ n_query' = 0
  /\ UNCHANGED loopVars

\* a show that drains the window it has reported
Show_drain ==
  /\ panicked = "none"
  /\ \E n \in 0..MaxTop :
       /\ n_query' = n
       /\ \E iter \in IterOrders(summarizer.counts) :
            out' = show_summary(summarizer.counts, n, iter)
       /\ LET summ == RecentSummarizer_summ(recent)
          IN \E iter \in IterOrders(summ) :
               rout' = show_summary(summ, n, iter)
  /\ recent' = [recent EXCEPT !.counts = <<>>]
  /\ UNCHANGED <<summarizer, panicked>>
  /\ UNCHANGED history
  /\ UNCHANGED loopVars

Show ==
  /\ panicked = "none"
  /\ \E n \in 0..MaxTop :
       /\ n_query' = n
       /\ \E iter \in IterOrders(summarizer.counts) :
            out' = show_summary(summarizer.counts, n, iter)
       /\ LET summ == RecentSummarizer_summ(recent)
          IN \E iter \in IterOrders(summ) :
               rout' = show_summary(summ, n, iter)
  /\ UNCHANGED <<summarizer, recent, panicked>>
  /\ UNCHANGED history
  /\ UNCHANGED loopVars

NextSumm == Update \/ Show

SpecSumm == InitSumm /\ [][NextSumm]_vars

(***************************************************************************)
(* main and exec_profile: the sampling loop                                *)
(***************************************************************************)
Init ==
  /\ last \in 0..MaxLimit
  /\ options \in [delay : 0..MaxDelay, top : 0..MaxTop]
  /\ summarizer = Summarizer_new(last)
  /\ recent = RecentSummarizer_new(last)
  /\ panicked = "none"
  /\ procs = <<>>
  /\ cnt = 0
  /\ pc = "fetch"
  /\ out = <<>>
  /\ rout = <<>>
  /\ n_query = 0
  /\ calls = 0
  /\ fed = [q \in Shapes |-> 0]
  /\ hist = <<>>
  /\ tick = 0
  /\ reported = FALSE
  /\ fetch_failed = FALSE
  /\ rows = <<>>
  /\ given = NoCase

\* get_process_list returns the filtered rows
Fetch ==
  /\ pc = "fetch" /\ panicked = "none"
  /\ tick < MaxTicks
  /\ \E fetched \in SeqsUpTo(RawTexts, MaxRows) :
       /\ rows' = fetched
       /\ procs' = get_process_list(fetched)
  /\ pc' = "normalize"
  /\ tick' = tick + 1
  /\ reported' = FALSE
  /\ out' = <<>> /\ rout' = <<>> /\ n_query' = 0
  /\ UNCHANGED <<given, last, options, summarizer, recent, panicked, cnt,
                 fetch_failed>>
  /\ UNCHANGED history

\* a failed fetch that is logged, the loop going on to the sleep
FetchFail_retry ==
  /\ pc = "fetch" /\ panicked = "none"
  /\ tick < MaxTicks
  /\ fetch_failed' = TRUE
  /\ pc' = "sleep"
  /\ tick' = tick + 1
  /\ reported' = FALSE
  /\ out' = <<>> /\ rout' = <<>> /\ n_query' = 0
  /\ rows' = <<>>
  /\ UNCHANGED <<given, last, options, summarizer, recent, panicked, procs, cnt>>
  /\ UNCHANGED history

\* get_process_list: get_conn or exec_iter returns Err
FetchFail ==
  /\ pc = "fetch" /\ panicked = "none"
  /\ tick < MaxTicks
  /\ panicked' = "fetch"
  /\ fetch_failed' = TRUE
  /\ tick' = tick + 1
  /\ reported' = FALSE
  /\ out' = <<>> /\ rout' = <<>> /\ n_query' = 0
  /\ rows' = <<>>
  /\ UNCHANGED <<given, last, options, summarizer, recent, procs, cnt, pc>>
  /\ UNCHANGED history

\* the loop normalizing copies of the rows, the rows left as fetched
Normalize_copy ==
  /\ pc = "normalize" /\ panicked = "none"
  /\ procs' = procs
  /\ pc' = "update"
  /\ rows' = <<>>
  /\ UNCHANGED <<given, last, options, summarizer, recent, panicked, cnt,
                 out, rout, n_query, tick, reported, fetch_failed>>
  /\ UNCHANGED history

\* the loop going from normalize to the report, the update left out
Normalize_skip ==
  /\ pc = "normalize" /\ panicked = "none"
  /\ procs' = [i \in 1..Len(procs) |-> normalize_query(procs[i])]
  /\ pc' = "count"
  /\ rows' = <<>>
  /\ UNCHANGED <<given, last, options, summarizer, recent, panicked, cnt,
                 out, rout, n_query, tick, reported, fetch_failed>>
  /\ UNCHANGED history

Normalize ==
  /\ pc = "normalize" /\ panicked = "none"
  /\ procs' = [i \in 1..Len(procs) |-> normalize_query(procs[i])]
  /\ pc' = "update"
  /\ rows' = <<>>
  /\ UNCHANGED <<given, last, options, summarizer, recent, panicked, cnt,
                 out, rout, n_query, tick, reported, fetch_failed>>
  /\ UNCHANGED history

\* summ.update(...), summ being the summarizer main constructed
LoopUpdate ==
  /\ pc = "update" /\ panicked = "none"
  /\ IF last = 0
     THEN /\ summarizer' = Summarizer_update(summarizer, procs)
          /\ pc' = "count"
          /\ UNCHANGED <<recent, panicked>>
     ELSE LET res == RecentSummarizer_update(recent, procs)
          IN /\ recent' = res.self
             /\ panicked' = res.panic
             /\ pc' = IF res.panic = "none" THEN "count" ELSE pc
             /\ UNCHANGED summarizer
  /\ Recorded(procs)
  /\ UNCHANGED <<given, last, options, procs, cnt,
                 out, rout, n_query, tick, reported, fetch_failed, rows>>

\* cnt += 1; if due { cnt = 0; ...; summ.show(options.top) }
ReportStep(due) ==
  /\ pc = "count" /\ panicked = "none"
  /\ IF due
     THEN /\ cnt' = 0
          /\ n_query' = options.top
          /\ IF last = 0
             THEN /\ \E iter \in IterOrders(summarizer.counts) :
                       out' = show_summary(summarizer.counts, options.top, iter)
                  /\ UNCHANGED rout
             ELSE /\ LET summ == RecentSummarizer_summ(recent)
                     IN \E iter \in IterOrders(summ) :
                          rout' = show_summary(summ, options.top, iter)
                  /\ UNCHANGED out
          /\ reported' = TRUE
     ELSE /\ cnt' = cnt + 1
          /\ UNCHANGED <<out, rout, n_query, reported>>
  /\ pc' = "sleep"
  /\ UNCHANGED <<given, last, options, summarizer, recent, panicked, procs,
                 tick, fetch_failed, rows>>
  /\ UNCHANGED history

\* the report made only when cnt exceeds the delay
Report_gt == ReportStep(cnt + 1 > options.delay)

Report == ReportStep(cnt + 1 >= options.delay)

Sleep ==
  /\ pc = "sleep" /\ panicked = "none"
  /\ pc' = "fetch"
  /\ UNCHANGED <<given, last, options, summarizer, recent, panicked, procs, cnt,
                 out, rout, n_query, tick, reported, fetch_failed,
                 rows>>
  /\ UNCHANGED history

Next == Fetch \/ FetchFail \/ Normalize \/ LoopUpdate \/ Report \/ Sleep

Spec == Init /\ [][Next]_vars

(***************************************************************************)
(* tests::test_normalize: normalize_query applied to one case, the cases   *)
(* being value lists in parentheses and quoted literals with escaped       *)
(* quotes in their body.                                                   *)
(***************************************************************************)
MaxValues == 6

MaxBody == 3

\* a decimal integer, a single-quoted string and a hexadecimal literal
ListValues == {Chars("1"), Chars("'a'"), Chars("0x1F")}

Separators == {Chars(","), Chars(", ")}

Quotes == {"'", "\""}

\* what a literal's body is made of: a letter, an escaped quote of its kind
BodyParts(quote) == {<<"a">>, <<"\\", quote>>}

Bodies(quote) ==
  {b \in SeqsUpTo(BodyParts(quote), MaxBody) :
      \E i \in DOMAIN b : b[i] = <<"\\", quote>>}

Cases ==
  {[kind |-> "list", values |-> v, sep |-> s] :
      v \in SeqsUpTo(ListValues, MaxValues), s \in Separators}
  \cup UNION {{[kind |-> "literal", quote |-> q, body |-> b] : b \in Bodies(q)} :
                q \in Quotes}

RECURSIVE Join(_, _)
Join(parts, sep) ==
  IF parts = <<>> THEN <<>>
  ELSE IF Len(parts) = 1 THEN parts[1]
       ELSE parts[1] \o sep \o Join(Tail(parts), sep)

\* the input of a case
CaseText(c) ==
  IF c.kind = "list" THEN Chars("IN (") \o Join(c.values, c.sep) \o Chars(")")
  ELSE <<c.quote>> \o Join(c.body, <<>>) \o <<c.quote>>

InitNorm ==
  /\ last = 0
  /\ options = [delay |-> 1, top |-> 0]
  /\ summarizer = Summarizer_new(last)
  /\ recent = RecentSummarizer_new(last)
  /\ panicked = "none"
  /\ procs = <<>>
  /\ cnt = 0
  /\ pc = "test"
  /\ out = <<>>
  /\ rout = <<>>
  /\ n_query = 0
  /\ calls = 0
  /\ fed = [q \in Shapes |-> 0]
  /\ hist = <<>>
  /\ tick = 0
  /\ reported = FALSE
  /\ fetch_failed = FALSE
  /\ rows = <<>>
  /\ given \in Cases

\* normalize_query(pat.input), its result kept in procs
test_normalize ==
  /\ pc = "test"
  /\ procs' = <<normalize_query(CaseText(given))>>
  /\ pc' = "done"
  /\ UNCHANGED <<given, last, options, summarizer, recent, panicked, cnt,
                 out, rout, n_query, tick, reported, fetch_failed,
                 rows>>
  /\ UNCHANGED history

NextNorm == test_normalize

SpecNorm == InitNorm /\ [][NextNorm]_vars

(***************************************************************************)
(* What the update calls so far amount to, counted from the history.       *)
(***************************************************************************)
RECURSIVE TotalOccurrences(_, _)
TotalOccurrences(q, bags) ==
  IF bags = <<>> THEN 0
  ELSE Head(bags)[q] + TotalOccurrences(q, Tail(bags))

\* the calls a window of recent.limit entries retains
Retained == Latest(hist, Min(calls, recent.limit))

\* the call evicted by the latest update
Evicted == hist[Len(hist) - recent.limit]

Keys(lines) == {lines[i].k : i \in DOMAIN lines}

(***************************************************************************)
(* C1: with limit K >= 1 the window of a RecentSummarizer never holds more *)
(* than K per-tick entries, whatever update and show calls are made.       *)
(***************************************************************************)
C1_WindowBounded == last >= 1 => Len(recent.counts) <= recent.limit

\* an update has evicted the oldest entry of a full window
C1_Witness ==
  /\ last >= 1
  /\ panicked = "none"
  /\ calls > recent.limit
  /\ Len(recent.counts) = recent.limit

(***************************************************************************)
(* C2: with limit K >= 1, after n update calls the count show reports for  *)
(* a shape is the number of its occurrences in the latest min(n, K) update *)
(* calls, and shapes occurring only in evicted calls are not reported.     *)
(***************************************************************************)
C2_WindowCounts ==
  (last >= 1 /\ panicked = "none") =>
    LET summ == RecentSummarizer_summ(recent)
    IN /\ DOMAIN summ = {q \in Shapes : TotalOccurrences(q, Retained) > 0}
       /\ \A q \in DOMAIN summ : summ[q] = TotalOccurrences(q, Retained)
       /\ \A i \in DOMAIN rout :
            rout[i].v = TotalOccurrences(rout[i].k, Retained)

\* K + 1 updates, show has printed, and a shape of the first call is gone
C2_Witness ==
  /\ last >= 1
  /\ panicked = "none"
  /\ calls = recent.limit + 1
  /\ rout # <<>>
  /\ \E q \in Shapes :
       /\ Evicted[q] > 0
       /\ q \notin Keys(rout)
       /\ q \notin DOMAIN RecentSummarizer_summ(recent)

(***************************************************************************)
(* C3: show(topN) prints at most topN entries, for every topN >= 0 and for *)
(* both summarizers.                                                       *)
(***************************************************************************)
C3_AtMostTopN == Len(out) <= n_query /\ Len(rout) <= n_query

(***************************************************************************)
(* C4: the entries show prints are entries of the table in non-increasing  *)
(* order of count, and no omitted shape has a count greater than a printed *)
(* one.                                                                    *)
(***************************************************************************)
Ranked(lines, table) ==
  /\ \A i \in DOMAIN lines :
       lines[i].k \in DOMAIN table /\ lines[i].v = table[lines[i].k]
  /\ \A i, j \in DOMAIN lines :
       i < j => lines[i].v >= lines[j].v /\ lines[i].k # lines[j].k
  /\ \A q \in DOMAIN table \ Keys(lines) :
       \A i \in DOMAIN lines : table[q] <= lines[i].v

C4_RankedOutput ==
  /\ Ranked(out, summarizer.counts)
  /\ panicked = "none" => Ranked(rout, RecentSummarizer_summ(recent))

\* show(1) has printed the shape of the greater count and omitted the other
C4_Witness ==
  /\ n_query = 1
  /\ Len(out) = 1
  /\ \E q \in DOMAIN summarizer.counts : summarizer.counts[q] < out[1].v
  /\ Len(rout) = 1
  /\ \E q \in DOMAIN RecentSummarizer_summ(recent) :
       RecentSummarizer_summ(recent)[q] < rout[1].v

(***************************************************************************)
(* C5: the count a Summarizer stores for a shape is the number of          *)
(* occurrences of the shape in all update calls so far.                    *)
(***************************************************************************)
C5_AllTimeCounts ==
  /\ DOMAIN summarizer.counts = {q \in Shapes : fed[q] > 0}
  /\ \A q \in DOMAIN summarizer.counts : summarizer.counts[q] = fed[q]

\* one shape fed once in each of three updates
C5_Witness ==
  /\ calls = 3
  /\ Len(hist) = 3
  /\ \E q \in Shapes :
       /\ \A i \in DOMAIN hist : hist[i][q] = 1
       /\ summarizer.counts[q] = 3

(***************************************************************************)
(* C6: a RecentSummarizer of limit 0 accepts every update and reports the  *)
(* same shapes and counts as a Summarizer fed the same updates.            *)
(***************************************************************************)
C6_LimitZeroIsAllTime ==
  last = 0 =>
    /\ panicked = "none"
    /\ RecentSummarizer_summ(recent) = summarizer.counts
    /\ Len(rout) = Len(out)
    /\ \A i \in DOMAIN rout : rout[i].v = out[i].v

(***************************************************************************)
(* C7: no update or show call of either summarizer ends in a panic,        *)
(* whatever the limit and the shapes, the empty shape included.            *)
(***************************************************************************)
C7_NeverPanics == panicked = "none"

(***************************************************************************)
(* C8: with delay D >= 1, show is called in tick n exactly when n is a     *)
(* multiple of D; after the tick cnt is 0 if it reported and in 1..D-1     *)
(* otherwise.                                                              *)
(***************************************************************************)
C8_ReportEveryDelay ==
  (options.delay >= 1 /\ panicked = "none" /\ pc = "sleep") =>
    /\ tick >= 1
    /\ reported <=> tick % options.delay = 0
    /\ reported => cnt = 0
    /\ ~reported => cnt \in 1..(options.delay - 1)

\* with D = 2: tick 1 did not report, tick 2 did
C8_Witness ==
  /\ options.delay = 2
  /\ pc = "sleep"
  /\ tick = 2
  /\ reported
  /\ cnt = 0

(***************************************************************************)
(* C9: the steps of a tick run in the order fetch, normalize, update,      *)
(* optional report, sleep, the next tick starting only after the sleep;    *)
(* a report printed in tick n counts the shapes of tick n's update.        *)
(***************************************************************************)
TickOrder ==
  {<<"fetch", "normalize">>, <<"normalize", "update">>, <<"update", "count">>,
   <<"count", "sleep">>, <<"sleep", "fetch">>}

ReportedCount(q) ==
  IF last = 0 THEN fed[q]
  ELSE TotalOccurrences(q, Retained)

C9_TickOrder ==
  /\ [][pc' # pc => <<pc, pc'>> \in TickOrder]_vars
  /\ [][calls' # calls => pc = "update"]_vars
  /\ [][(reported' /\ ~reported) => (pc = "count" /\ calls = tick)]_vars
  /\ [][tick' # tick => pc = "fetch"]_vars
  /\ [](reported =>
          /\ calls = tick
          /\ \A i \in DOMAIN out : out[i].v = ReportedCount(out[i].k)
          /\ \A i \in DOMAIN rout : rout[i].v = ReportedCount(rout[i].k))

\* the second tick reports a shape its own update has just counted
C9_Witness ==
  /\ pc = "sleep"
  /\ reported
  /\ tick = 2
  /\ \E i \in DOMAIN rout :
       /\ hist[1][rout[i].k] = 0
       /\ rout[i].v = Occurrences(rout[i].k, procs)
       /\ rout[i].v = hist[2][rout[i].k]

(***************************************************************************)
(* C10 as stated: a failed fetch does not end the sampling loop.           *)
(***************************************************************************)
C10_LoopSurvivesFetchFailure == fetch_failed => panicked = "none"

(***************************************************************************)
(* C10: a failed fetch panics and ends the sampling loop; the summarizer   *)
(* is left as it was and no later step, so no later fetch, is taken.       *)
(***************************************************************************)
C10_FetchFailureEndsLoop ==
  /\ [](fetch_failed => panicked = "fetch")
  /\ [][(fetch_failed' /\ ~fetch_failed) =>
          (summarizer' = summarizer /\ recent' = recent /\ calls' = calls)]_vars
  /\ [][~fetch_failed]_vars

\* the second tick's fetch failed after the first tick had updated
C10_Witness ==
  /\ fetch_failed
  /\ panicked = "fetch"
  /\ tick = 2
  /\ calls = 1
  /\ \E q \in Shapes : fed[q] > 0


(***************************************************************************)
(* C11: show is deterministic under ties: a show that follows a show of    *)
(* the same table with the same top, no update in between, prints the same *)
(* shapes in the same order.                                               *)
(***************************************************************************)
C11_ShowDeterministic ==
  [][(calls' = calls /\ summarizer' = summarizer /\ recent' = recent
        /\ n_query' = n_query)
       => /\ out # <<>> => out' = out
          /\ rout # <<>> => rout' = rout]_vars


(***************************************************************************)
(* The placeholders a value list is expected to normalize to.              *)
(***************************************************************************)
IsHexLiteral(v) == Len(v) >= 2 /\ v[1] = "0" /\ v[2] = "x"

Placeholder(v) ==
  IF v[1] = "'" THEN Chars("S")
  ELSE IF IsHexLiteral(v) THEN Chars("0xN")
       ELSE Chars("N")

Placeholders(values) == [i \in DOMAIN values |-> Placeholder(values[i])]

\* the case is a list of decimal integers and strings only
PlainList ==
  /\ given.kind = "list"
  /\ \A i \in DOMAIN given.values : ~IsHexLiteral(given.values[i])

(***************************************************************************)
(* C12: a list of n values that each become N or S is left expanded for    *)
(* n <= 4 and becomes `...` followed by the last placeholder for n >= 5.   *)
(***************************************************************************)
C12_CollapseThreshold ==
  (pc = "done" /\ PlainList) =>
     procs[1] = Chars("IN (")
                \o (IF Len(given.values) <= 4
                    THEN Join(Placeholders(given.values), given.sep)
                    ELSE Chars("...")
                         \o Placeholder(given.values[Len(given.values)]))
                \o Chars(")")

\* a list of five values, collapsed to its last placeholder
C12_Witness ==
  /\ pc = "done" /\ PlainList
  /\ Len(given.values) = 5
  /\ procs[1] = Chars("IN (...S)")

(***************************************************************************)
(* C13: in a list below the collapse threshold every string becomes S,     *)
(* every decimal integer N and every hexadecimal literal 0xN, the          *)
(* separators kept; no part of a hexadecimal literal is rewritten by the   *)
(* decimal rule.                                                           *)
(***************************************************************************)
C13_SubThresholdList ==
  (pc = "done" /\ given.kind = "list" /\ Len(given.values) <= 4) =>
     procs[1] = Chars("IN (")
                \o Join(Placeholders(given.values), given.sep)
                \o Chars(")")

\* IN (0x1F, 1, 1) has become IN (0xN, N, N)
C13_Witness ==
  /\ pc = "done" /\ given.kind = "list"
  /\ given.values = <<Chars("0x1F"), Chars("1"), Chars("1")>>
  /\ procs[1] = Chars("IN (0xN, N, N)")

BodyHasLetter == \E i \in DOMAIN given.body : given.body[i] = <<"a">>

ShapeOf(text) ==
  CASE text = Chars("1") -> Chars("N")
    [] text = Chars("\\'") -> Chars("")

(***************************************************************************)
(* C14: normalize is total, pure and deterministic: the empty string has   *)
(* an output, and the normalize step of every tick gives each statement    *)
(* the one shape that statement has, whatever was normalized or aggregated *)
(* before, changing nothing but the rows it rewrites.                      *)
(***************************************************************************)
C14_NormalizePure ==
  /\ [](normalize_query(Chars("")) = Chars(""))
  /\ [][pc = "normalize" =>
          /\ Len(procs') = Len(procs)
          /\ \A i \in DOMAIN procs : procs'[i] = ShapeOf(procs[i])
          /\ UNCHANGED <<summarizer, recent, cnt, last, options,
                         out, rout, n_query>>
          /\ UNCHANGED history]_vars

\* both statements normalized in a tick that follows an update
C14_Witness ==
  /\ pc = "update" /\ calls >= 1
  /\ summarizer.counts # <<>>
  /\ procs = <<Chars("N"), Chars("")>>


(***************************************************************************)
(* C15: every count in the Summarizer's table, in an entry of the          *)
(* RecentSummarizer's window, and in a line show printed is non-negative.  *)
(***************************************************************************)
C15_CountsNonNegative ==
  /\ \A q \in DOMAIN summarizer.counts : summarizer.counts[q] >= 0
  /\ \A i \in DOMAIN recent.counts :
       \A j \in DOMAIN recent.counts[i] : recent.counts[i][j].n >= 0
  /\ \A q \in DOMAIN RecentSummarizer_summ(recent) :
       RecentSummarizer_summ(recent)[q] >= 0
  /\ \A i \in DOMAIN out : out[i].v >= 0
  /\ \A i \in DOMAIN rout : rout[i].v >= 0

\* a full window of two entries, both summarizers having reported
C15_Witness ==
  /\ Len(recent.counts) = 2
  /\ recent.counts[1] # <<>> /\ recent.counts[2] # <<>>
  /\ out # <<>> /\ rout # <<>>

(***************************************************************************)
(* C17: RecentSummarizer::update appends exactly one entry to the window,  *)
(* and that entry holds one record for each distinct shape of the input,   *)
(* its count the occurrences of the shape in the input, and nothing else.  *)
(***************************************************************************)
C17_UpdateAppendsEntry ==
  [][(last >= 1 /\ calls' = calls + 1) =>
       /\ Len(recent'.counts) = Min(Len(recent.counts) + 1, recent.limit)
       /\ SubSeq(recent'.counts, 1, Len(recent'.counts) - 1)
            = Latest(recent.counts, Len(recent'.counts) - 1)
       /\ LET e == recent'.counts[Len(recent'.counts)]
              input == hist'[Len(hist')]
          IN /\ \A q \in Shapes :
                  Cardinality({j \in DOMAIN e : e[j].q = q})
                    = IF input[q] > 0 THEN 1 ELSE 0
             /\ \A j \in DOMAIN e :
                  e[j].q \in Shapes /\ e[j].n = input[e[j].q]]_vars

(***************************************************************************)
(* C19: with limit K >= 1 and at most K update calls so far, the           *)
(* RecentSummarizer and the Summarizer fed the same calls report the same  *)
(* count for every shape.                                                  *)
(***************************************************************************)
C19_SameCountsBeforeEviction ==
  (last >= 1 /\ calls <= last /\ panicked = "none") =>
     /\ RecentSummarizer_summ(recent) = summarizer.counts
     /\ (out # <<>> /\ rout # <<>>) =>
          \A i \in DOMAIN rout : rout[i].v = summarizer.counts[rout[i].k]

\* K = 2 updates, a shape twice in one of them, both have reported
C19_Witness ==
  /\ last = 2 /\ calls = 2 /\ panicked = "none"
  /\ \E i \in DOMAIN recent.counts :
       \E j \in DOMAIN recent.counts[i] : recent.counts[i][j].n = 2
  /\ out # <<>> /\ rout # <<>>


\* the rows of the latest fetch that are neither empty nor the fetch command
KeptRows ==
  {i \in DOMAIN rows : rows[i] # Chars("") /\ rows[i] # QUERY_SHOW_PROCESS}

(***************************************************************************)
(* C16: what a tick hands to update is the shapes of the fetched rows that *)
(* are neither empty nor SHOW FULL PROCESSLIST, one shape for each such    *)
(* row, and no shape of any other row.                                     *)
(***************************************************************************)
C16_FilteredRows ==
  /\ [][pc = "normalize" =>
          /\ Len(procs') = Cardinality(KeptRows)
          /\ \A q \in Shapes :
               Occurrences(q, procs')
                 = Cardinality({i \in KeptRows : ShapeOf(rows[i]) = q})
          /\ \A j \in DOMAIN procs' : procs'[j] \in Shapes]_vars
  /\ [][calls' = calls + 1 =>
          /\ pc = "update"
          /\ \A q \in Shapes : hist'[Len(hist')][q] = Occurrences(q, procs)]_vars

\* the fetch command's own row and one statement fetched in a later tick,
\* the statement kept and about to be normalized and handed to update
C16_Witness ==
  /\ pc = "normalize" /\ calls >= 1
  /\ rows = <<QUERY_SHOW_PROCESS, Chars("1")>>
  /\ procs = <<Chars("1")>>

(***************************************************************************)
(* C20: show leaves the Summarizer's table and the RecentSummarizer's      *)
(* window as they were, and a show that follows a show with no update in   *)
(* between reports the same counts.                                        *)
(***************************************************************************)
C20_ShowLeavesState ==
  [][calls' = calls =>
       /\ summarizer' = summarizer
       /\ recent' = recent
       /\ \A i \in DOMAIN out \cap DOMAIN out' : out'[i].v = out[i].v
       /\ \A i \in DOMAIN rout \cap DOMAIN rout' : rout'[i].v = rout[i].v]_vars

\* both summarizers have reported and still hold what they held
C20_Witness ==
  /\ calls = 2 /\ panicked = "none"
  /\ out # <<>> /\ rout # <<>>
  /\ Len(recent.counts) = 2
  /\ RecentSummarizer_summ(recent) = [q \in {Chars("N"), Chars("S")} |-> 1]
  /\ summarizer.counts = [q \in {Chars("N"), Chars("S")} |-> 1]

=============================================================================
